---------------------------- MODULE Spec2Model ----------------------------
(***************************************************************************)
(* Model of the Python wrapper around the compiled ODE backend:            *)
(* FortranODESolver (constructor, solve, solve_to_file), parameter_sweep   *)
(* and the `sweep` command of the command-line interface.                  *)
(*                                                                         *)
(* The program is single-threaded.  A step of the model runs the Python    *)
(* code from one blocking point to the next: the only blocking point is    *)
(* subprocess.run waiting for the backend child process.                   *)
(*                                                                         *)
(* Text is a sequence of one-character strings.  A float is the pair       *)
(* <<m, e>> standing for the decimal m / 10^e, normalised so that m has no *)
(* trailing zero unless e = 0.                                             *)
(***************************************************************************)
EXTENDS Integers, Sequences, FiniteSets, TLC

(***************************************************************************)
(* Bounds of the model.                                                    *)
(***************************************************************************)
\* longest backend output, in lines
MaxLines == 2
\* longest list of sweep values
MaxValues == 2

(***************************************************************************)
(* Text primitives of Python's str.                                        *)
(***************************************************************************)
Whitespace == {" ", "\n"}

RECURSIVE LStrip(_)
LStrip(s) ==
    IF s # <<>> /\ Head(s) \in Whitespace THEN LStrip(Tail(s)) ELSE s

RECURSIVE RStrip(_)
RStrip(s) ==
    IF s # <<>> /\ s[Len(s)] \in Whitespace
    THEN RStrip(SubSeq(s, 1, Len(s) - 1))
    ELSE s

\* str.strip(): whitespace removed at both ends
Strip(s) == RStrip(LStrip(s))

\* str.split(sep) for a one-character separator: always at least one field
RECURSIVE SplitFrom(_, _, _)
SplitFrom(s, sep, field) ==
    IF s = <<>> THEN <<field>>
    ELSE IF Head(s) = sep
         THEN <<field>> \o SplitFrom(Tail(s), sep, <<>>)
         ELSE SplitFrom(Tail(s), sep, Append(field, Head(s)))

Split(s, sep) == SplitFrom(s, sep, <<>>)

\* str.startswith(prefix)
StartsWith(s, prefix) ==
    /\ Len(s) >= Len(prefix)
    /\ SubSeq(s, 1, Len(prefix)) = prefix

(***************************************************************************)
(* float(text), over the characters used here: optional surrounding        *)
(* whitespace, digits with at most one decimal point and at least one      *)
(* digit.  Anything else is a ValueError.                                  *)
(***************************************************************************)
Digit == {"0", "1", "2", "3", "4", "5", "6", "7", "8", "9"}

DigitVal(c) ==
    CASE c = "0" -> 0 [] c = "1" -> 1 [] c = "2" -> 2 [] c = "3" -> 3
      [] c = "4" -> 4 [] c = "5" -> 5 [] c = "6" -> 6 [] c = "7" -> 7
      [] c = "8" -> 8 [] c = "9" -> 9

RECURSIVE DigitsVal(_, _)
DigitsVal(s, acc) ==
    IF s = <<>> THEN acc ELSE DigitsVal(Tail(s), 10 * acc + DigitVal(Head(s)))

RECURSIVE Normalise(_, _)
Normalise(m, e) ==
    IF e > 0 /\ m % 10 = 0 THEN Normalise(m \div 10, e - 1) ELSE <<m, e>>

AllDigits(s) == \A i \in 1..Len(s) : s[i] \in Digit

ParseFloat(text) ==
    LET s     == Strip(text)
        parts == Split(s, ".")
        ip    == parts[1]
        fp    == IF Len(parts) = 2 THEN parts[2] ELSE <<>>
        ok    == /\ Len(parts) \in {1, 2}
                 /\ AllDigits(ip) /\ AllDigits(fp)
                 /\ Len(ip) + Len(fp) > 0
    IN  IF ok
        THEN [ok |-> TRUE, val |-> Normalise(DigitsVal(ip \o fp, 0), Len(fp))]
        ELSE [ok |-> FALSE, val |-> <<0, 0>>]

(***************************************************************************)
(* Exceptions.                                                             *)
(***************************************************************************)
NoExc == [type |-> "none", msg |-> "", detail |-> ""]

Exc(type, msg, detail) == [type |-> type, msg |-> msg, detail |-> detail]

(***************************************************************************)
(* The parsing loop of solve.                                              *)
(***************************************************************************)
HeaderToken == <<"t", ",", "y">>

\* lines kept for parsing: non-empty, not starting (after strip) with "t,y"
RECURSIVE DataLines(_)
DataLines(lines) ==
    IF lines = <<>> THEN <<>>
    ELSE LET line == Head(lines)
         IN  IF line # <<>> /\ ~StartsWith(Strip(line), HeaderToken)
             THEN <<line>> \o DataLines(Tail(lines))
             ELSE DataLines(Tail(lines))

EmptyParse == [t_vals |-> <<>>, y_vals |-> <<>>, exc |-> NoExc]

ValueErrorExc == Exc("ValueError", "could not convert string to float", "")

\* One turn of the loop on a parse that has not raised.  float(parts[0]) is
\* appended before float(parts[1]) is evaluated.
ParseRowSkipBadValue(acc, line) ==
    LET parts == Split(Strip(line), ",")
    IN  IF Len(parts) # 2 THEN acc
        ELSE LET ft == ParseFloat(parts[1])
                 fy == ParseFloat(parts[2])
             IN  IF ~ft.ok THEN acc
                 ELSE IF ~fy.ok
                      THEN [acc EXCEPT !.t_vals = Append(@, ft.val)]
                      ELSE [acc EXCEPT !.t_vals = Append(@, ft.val),
                                       !.y_vals = Append(@, fy.val)]

ParseRow(acc, line) ==
    LET parts == Split(Strip(line), ",")
    IN  IF Len(parts) # 2 THEN acc
        ELSE LET ft == ParseFloat(parts[1])
                 fy == ParseFloat(parts[2])
             IN  IF ~ft.ok THEN [acc EXCEPT !.exc = ValueErrorExc]
                 ELSE IF ~fy.ok
                      THEN [acc EXCEPT !.t_vals = Append(@, ft.val),
                                       !.exc = ValueErrorExc]
                      ELSE [acc EXCEPT !.t_vals = Append(@, ft.val),
                                       !.y_vals = Append(@, fy.val)]

RECURSIVE ParseRows(_, _)
ParseRows(acc, lines) ==
    IF lines = <<>> \/ acc.exc # NoExc THEN acc
    ELSE ParseRows(ParseRow(acc, Head(lines)), Tail(lines))

\* result.stdout.strip().split("\n"), the filter and the loop
ParseStdout(stdout) ==
    ParseRows(EmptyParse, DataLines(Split(Strip(stdout), "\n")))


(***************************************************************************)
(* The filesystem and the solver handle.                                   *)
(***************************************************************************)
\* None, for an optional path
NoPath == ""

\* search_paths of the constructor, in order
SearchPaths == <<"build/ode_solver", "./ode_solver", "pkg/build/ode_solver">>

\* paths a caller may pass explicitly
AllPaths == {SearchPaths[i] : i \in 1..Len(SearchPaths)} \cup {"custom/ode_solver"}

\* the for loop over search_paths: the first that exists, else None
RECURSIVE FirstExisting(_, _)
FirstExisting(paths, fs) ==
    IF paths = <<>> THEN NoPath
    ELSE IF Head(paths) \in fs THEN Head(paths)
    ELSE FirstExisting(Tail(paths), fs)

NotFoundSearch == Exc("FileNotFoundError", "Could not find ode_solver executable", "")
NotFoundPath(p) == Exc("FileNotFoundError", "Executable not found", p)

\* FortranODESolver(executable_path) on filesystem fs: the exception raised,
\* or the executable_path of the new object
NewSolverNoCheck(explicit, fs) ==
    LET found == IF explicit = NoPath THEN FirstExisting(SearchPaths, fs) ELSE explicit
    IN  IF found = NoPath
        THEN [exc |-> NotFoundSearch, path |-> NoPath]
        ELSE [exc |-> NoExc, path |-> found]

NewSolver(explicit, fs) ==
    LET found == IF explicit = NoPath THEN FirstExisting(SearchPaths, fs) ELSE explicit
    IN  IF found = NoPath
        THEN [exc |-> NotFoundSearch, path |-> NoPath]
        ELSE IF found \notin fs
             THEN [exc |-> NotFoundPath(found), path |-> NoPath]
             ELSE [exc |-> NoExc, path |-> found]

\* A handle: its executable_path, and (history) whether that path existed at
\* the moment the constructor ran.
NoSolver == [path |-> NoPath, existed |-> FALSE]

(***************************************************************************)
(* Requests: the keyword arguments of solve.                               *)
(***************************************************************************)
SolveParams == {"t0", "tf", "y0", "n_steps"}

DefaultRequest ==
    [t0 |-> <<0, 0>>, tf |-> <<10, 0>>, y0 |-> <<1, 0>>, n_steps |-> <<100, 0>>]

NoKwargs == [k \in {} |-> <<0, 0>>]

OneKwarg(name, value) == [k \in {name} |-> value]

\* kwargs = base_kwargs.copy(); kwargs[param_name] = value
Override(base, name, value) ==
    [k \in DOMAIN base \cup {name} |-> IF k = name THEN value ELSE base[k]]

\* Python binds **kwargs to solve's parameters: an unknown name is a TypeError
KwargsBind(kwargs) == DOMAIN kwargs \subseteq SolveParams

BindRequest(kwargs) ==
    [k \in SolveParams |-> IF k \in DOMAIN kwargs THEN kwargs[k] ELSE DefaultRequest[k]]

UnexpectedKeyword == Exc("TypeError", "solve() got an unexpected keyword argument", "")

(***************************************************************************)
(* The backend, an external process: what one run of it does.              *)
(***************************************************************************)
NoRaw == [kind |-> "none", code |-> 0, lines |-> <<>>, stderr |-> ""]
Exit0(lines) == [kind |-> "exit", code |-> 0, lines |-> lines, stderr |-> ""]
ExitFail == [kind |-> "exit", code |-> 1, lines |-> <<>>, stderr |-> "boom"]
Hang == [kind |-> "hang", code |-> 0, lines |-> <<>>, stderr |-> ""]

\* the text the backend writes: every line followed by a newline
RECURSIVE BackendText(_)
BackendText(lines) ==
    IF lines = <<>> THEN <<>>
    ELSE Head(lines) \o <<"\n">> \o BackendText(Tail(lines))

\* the command line given to subprocess.run: the executable and nothing else
Argv(handle, req) == <<handle.path>>

TimedOut == Exc("RuntimeError", "Fortran solver timed out", "")
SolverFailed(stderr) == Exc("RuntimeError", "Fortran solver failed", stderr)
ErrorRunning(e) == Exc("RuntimeError", "Error running Fortran solver", e.type)

RECURSIVE Take(_, _)
Take(s, n) == IF n <= 0 \/ s = <<>> THEN <<>> ELSE <<Head(s)>> \o Take(Tail(s), n - 1)

\* what solve returns or raises once subprocess.run is over
SolveOutcomeTruncated(req, raw) ==
    IF raw.kind = "hang"
    THEN [exc |-> TimedOut, t_vals |-> <<>>, y_vals |-> <<>>]
    ELSE IF raw.code # 0
    THEN [exc |-> SolverFailed(raw.stderr), t_vals |-> <<>>, y_vals |-> <<>>]
    ELSE LET p == ParseStdout(BackendText(raw.lines))
         IN  IF p.exc # NoExc
             THEN [exc |-> ErrorRunning(p.exc), t_vals |-> <<>>, y_vals |-> <<>>]
             ELSE [exc |-> NoExc,
                   t_vals |-> Take(p.t_vals, req.n_steps[1]),
                   y_vals |-> Take(p.y_vals, req.n_steps[1])]

SolveOutcome(req, raw) ==
    IF raw.kind = "hang"
    THEN [exc |-> TimedOut, t_vals |-> <<>>, y_vals |-> <<>>]
    ELSE IF raw.code # 0
    THEN [exc |-> SolverFailed(raw.stderr), t_vals |-> <<>>, y_vals |-> <<>>]
    ELSE LET p == ParseStdout(BackendText(raw.lines))
         IN  IF p.exc # NoExc
             THEN [exc |-> ErrorRunning(p.exc), t_vals |-> <<>>, y_vals |-> <<>>]
             ELSE [exc |-> NoExc, t_vals |-> p.t_vals, y_vals |-> p.y_vals]

\* subprocess.run on TimeoutExpired kills the child and waits for it
LiveAfterTimeoutNoKill(n) == n

LiveAfterTimeout(n) == n - 1

\* subprocess.run returns once the child has exited and been reaped
LiveAfterExit(n) == n - 1


(***************************************************************************)
(* f"{val:.3f}": the decimal rendering of a float with three decimals.     *)
(* An exact tie is rounded half to even, as for a binary float that holds  *)
(* the tie exactly; the values enumerated below contain no tie.            *)
(***************************************************************************)
FormatDecimals == 3

RECURSIVE Pow10(_)
Pow10(n) == IF n = 0 THEN 1 ELSE 10 * Pow10(n - 1)

DigitChar(d) ==
    CASE d = 0 -> "0" [] d = 1 -> "1" [] d = 2 -> "2" [] d = 3 -> "3"
      [] d = 4 -> "4" [] d = 5 -> "5" [] d = 6 -> "6" [] d = 7 -> "7"
      [] d = 8 -> "8" [] d = 9 -> "9"

RECURSIVE IntText(_)
IntText(n) ==
    IF n < 10 THEN <<DigitChar(n)>> ELSE Append(IntText(n \div 10), DigitChar(n % 10))

\* exactly `width` digits of n, zero-padded on the left
RECURSIVE FixedDigits(_, _)
FixedDigits(n, width) ==
    IF width = 0 THEN <<>>
    ELSE Append(FixedDigits(n \div 10, width - 1), DigitChar(n % 10))

RoundedUnits(val, decimals) ==
    LET num == val[1] * Pow10(decimals)
        den == Pow10(val[2])
        q   == num \div den
        r   == num % den
    IN  IF 2 * r > den THEN q + 1
        ELSE IF 2 * r = den THEN q + (q % 2)
        ELSE q

FormatFixed(val, decimals) ==
    LET k == RoundedUnits(val, decimals)
    IN  IntText(k \div Pow10(decimals)) \o <<".">>
        \o FixedDigits(k % Pow10(decimals), decimals)

\* output_path / f"{param}_{val:.3f}.csv"
SweepFilePathNoValue(dir, param, val) == <<dir, "/", param, ".csv">>

SweepFilePath(dir, param, val) ==
    <<dir, "/", param, "_">> \o FormatFixed(val, FormatDecimals) \o <<".csv">>

(***************************************************************************)
(* Files.  A directory that does not exist makes open() fail.              *)
(***************************************************************************)
GoodOutput == <<"out.csv">>
MissingDirOutput == <<"missing", "/", "out.csv">>
NoOutput == <<>>

Writable(path) == path # MissingDirOutput

CannotOpen == Exc("FileNotFoundError", "No such file or directory", "")

\* the rows csv.writer writes after the header row: zip(t_vals, y_vals)
Rows(t_vals, y_vals) ==
    LET n == IF Len(t_vals) < Len(y_vals) THEN Len(t_vals) ELSE Len(y_vals)
    IN  [i \in 1..n |-> <<t_vals[i], y_vals[i]>>]

\* open(path, "w") and the writes: the file is created or replaced
WriteFile(files, path, rows) ==
    {f \in files : f.path # path} \cup {[path |-> path, rows |-> rows]}

RECURSIVE WriteAll(_, _)
WriteAll(files, writes) ==
    IF writes = <<>> THEN files
    ELSE WriteAll(WriteFile(files, Head(writes).path, Head(writes).rows), Tail(writes))

(***************************************************************************)
(* The call in progress and the result of the last call.                   *)
(***************************************************************************)
NoCall ==
    [op |-> "none", phase |-> "", handle |-> NoSolver, kwargs |-> NoKwargs,
     base |-> NoKwargs, param |-> "", values |-> <<>>, i |-> 0,
     results |-> <<>>, out |-> NoOutput, dir |-> "", argv |-> <<>>]

NoResult ==
    [op |-> "none", status |-> "none", exc |-> NoExc,
     t_vals |-> <<>>, y_vals |-> <<>>, list |-> <<>>, path |-> NoOutput,
     param |-> "", values |-> <<>>, arg |-> NoPath, argExisted |-> FALSE]

Raised(c, e) ==
    [NoResult EXCEPT !.op = c.op, !.status = "raised", !.exc = e,
                     !.param = c.param, !.values = c.values]

Returned(c) ==
    [NoResult EXCEPT !.op = c.op, !.status = "ok",
                     !.param = c.param, !.values = c.values]

\* One execution of solve within the call: its place in the loop, its keyword
\* arguments, the command line, what the backend did and what solve made of it.
NoAttempt ==
    [i |-> 0, kwargs |-> NoKwargs, argv |-> <<>>, raw |-> NoRaw,
     exc |-> NoExc, t_vals |-> <<>>, y_vals |-> <<>>]

Attempt(c, raw, out) ==
    [i |-> c.i, kwargs |-> c.kwargs, argv |-> c.argv, raw |-> raw,
     exc |-> out.exc, t_vals |-> out.t_vals, y_vals |-> out.y_vals]

FailedAttempt(c, e) == [NoAttempt EXCEPT !.i = c.i, !.kwargs = c.kwargs, !.exc = e]

\* An effect: what the code does up to its next blocking point.
\*   next   "wait" (a child was spawned, subprocess.run blocks) or "done"
\*   call   the call in progress afterwards
\*   result the result handed to the caller, when done
\*   writes the files written on the way, in order
\*   last   the latest execution of solve that has ended
Done(res, writes, att) ==
    [next |-> "done", call |-> NoCall, result |-> res, writes |-> writes, last |-> att]

Wait(c, writes, att) ==
    [next |-> "wait", call |-> c, result |-> NoResult, writes |-> writes, last |-> att]

\* Entering solve(**c.kwargs) on c.handle: the binding of the keyword
\* arguments, then subprocess.run, which fails at once when the executable
\* is not there (an OSError, caught by `except Exception`).
EnterSolve(c, fs, writes, att) ==
    IF ~KwargsBind(c.kwargs)
    THEN Done(Raised(c, UnexpectedKeyword), writes, FailedAttempt(c, UnexpectedKeyword))
    ELSE IF c.handle.path \notin fs
         THEN LET e == ErrorRunning(NotFoundPath(c.handle.path))
              IN  Done(Raised(c, e), writes, FailedAttempt(c, e))
         ELSE Wait([c EXCEPT !.argv = Argv(c.handle, BindRequest(c.kwargs))], writes, att)

(***************************************************************************)
(* What each operation does when the solve it is waiting for is over.      *)
(***************************************************************************)
\* solve: the series, or the failure
SolveReturn(c, att) ==
    IF att.exc # NoExc THEN Done(Raised(c, att.exc), <<>>, att)
    ELSE Done([Returned(c) EXCEPT !.t_vals = att.t_vals, !.y_vals = att.y_vals],
              <<>>, att)

\* solve_to_file: solve, then the file
SolveToFileReturn(c, att) ==
    IF att.exc # NoExc THEN Done(Raised(c, att.exc), <<>>, att)
    ELSE IF ~Writable(c.out) THEN Done(Raised(c, CannotOpen), <<>>, att)
    ELSE Done([Returned(c) EXCEPT !.path = c.out],
              <<[path |-> c.out, rows |-> Rows(att.t_vals, att.y_vals)]>>, att)

\* results.append((value, t_vals, y_vals))
AppendResultFront(results, value, att) ==
    <<[value |-> value, t_vals |-> att.t_vals, y_vals |-> att.y_vals]>> \o results

AppendResult(results, value, att) ==
    Append(results, [value |-> value, t_vals |-> att.t_vals, y_vals |-> att.y_vals])

\* parameter_sweep, entered with the loop variable before its first value
SweepEnter(c, fs) ==
    IF c.values = <<>> THEN Done(Returned(c), <<>>, NoAttempt)
    ELSE EnterSolve([c EXCEPT !.i = 1,
                              !.kwargs = Override(c.base, c.param, c.values[1])],
                    fs, <<>>, NoAttempt)

\* parameter_sweep, after the solve of values[i]
SweepLoopSkipFailed(c, att, fs) ==
    LET results == IF att.exc # NoExc THEN c.results
                   ELSE AppendResult(c.results, c.values[c.i], att)
    IN  IF c.i = Len(c.values)
        THEN Done([Returned(c) EXCEPT !.list = results], <<>>, att)
        ELSE EnterSolve([c EXCEPT !.i = c.i + 1, !.results = results,
                                  !.kwargs = Override(c.base, c.param, c.values[c.i + 1])],
                        fs, <<>>, att)

SweepLoop(c, att, fs) ==
    IF att.exc # NoExc THEN Done(Raised(c, att.exc), <<>>, att)
    ELSE LET results == AppendResult(c.results, c.values[c.i], att)
         IN  IF c.i = Len(c.values)
             THEN Done([Returned(c) EXCEPT !.list = results], <<>>, att)
             ELSE EnterSolve([c EXCEPT !.i = c.i + 1, !.results = results,
                                       !.kwargs = Override(c.base, c.param, c.values[c.i + 1])],
                             fs, <<>>, att)

\* the `sweep` command after parameter_sweep has returned `results`: the loop
\* `for val, _, _ in results`, entered at its n-th turn with `writes` done
CliFilesEnter(c, results, n, fs, writes, att) ==
    IF n > Len(results)
    THEN Done([Returned(c) EXCEPT !.list = results], writes, att)
    ELSE EnterSolve([c EXCEPT !.phase = "files", !.i = n, !.results = results,
                              !.kwargs = OneKwarg(c.param, results[n].value),
                              !.out = SweepFilePath(c.dir, c.param, results[n].value)],
                    fs, writes, att)

\* the `sweep` command, after a solve
CliSweepLoop(c, att, fs) ==
    IF c.phase = "sweep"
    THEN LET eff == SweepLoop(c, att, fs)
         IN  IF eff.next = "done" /\ eff.result.status = "ok"
             THEN CliFilesEnter(c, eff.result.list, 1, fs, <<>>, att)
             ELSE eff
    ELSE LET eff == SolveToFileReturn(c, att)
         IN  IF eff.result.status = "ok"
             THEN CliFilesEnter(c, c.results, c.i + 1, fs, eff.writes, att)
             ELSE eff

Continue(c, att, fs) ==
    CASE c.op = "solve" -> SolveReturn(c, att)
      [] c.op = "solve_to_file" -> SolveToFileReturn(c, att)
      [] c.op = "parameter_sweep" -> SweepLoop(c, att, fs)
      [] c.op = "cli_sweep" -> CliSweepLoop(c, att, fs)

\* param_vals = [float(v.strip()) for v in values.split(",")]
RECURSIVE ParseValues(_)
ParseValues(tokens) ==
    IF tokens = <<>> THEN [exc |-> NoExc, vals |-> <<>>]
    ELSE LET f    == ParseFloat(Head(tokens))
             rest == ParseValues(Tail(tokens))
         IN  IF ~f.ok THEN [exc |-> ValueErrorExc, vals |-> <<>>]
             ELSE IF rest.exc # NoExc THEN rest
             ELSE [exc |-> NoExc, vals |-> <<f.val>> \o rest.vals]

\* the `sweep` command up to its first blocking point
CliSweepEnter(param, tokens, dir, fs) ==
    LET c0 == [NoCall EXCEPT !.op = "cli_sweep", !.phase = "sweep",
                             !.param = param, !.dir = dir]
        pv == ParseValues(tokens)
        s  == NewSolver(NoPath, fs)
    IN  IF pv.exc # NoExc THEN Done(Raised(c0, pv.exc), <<>>, NoAttempt)
        ELSE IF s.exc # NoExc
             THEN Done(Raised([c0 EXCEPT !.values = pv.vals], s.exc), <<>>, NoAttempt)
             ELSE SweepEnter([c0 EXCEPT !.values = pv.vals,
                                        !.handle = [path |-> s.path,
                                                    existed |-> s.path \in fs]],
                             fs)


(***************************************************************************)
(* Inputs: what callers pass and what the backend prints.                  *)
(***************************************************************************)
HeaderLine == <<"t", ",", "y">>
\* well-formed `float,float` lines
GoodLines == { <<"0", ",", "1">>, <<"1", ",", ".", "5">> }
\* malformed lines: one field, two fields that are no numbers, a second field
\* that is no number, three fields, blank, empty
BadLines ==
    { <<"x">>, <<"x", ",", "z">>, <<"1", ",", "x">>,
      <<"1", ",", "2", ",", "3">>, <<" ">>, <<>> }

Lines == {HeaderLine} \cup GoodLines \cup BadLines

SeqsUpTo(S, n) == UNION {[1..k -> S] : k \in 0..n}

\* every output of at most MaxLines lines
AllOutputs == SeqsUpTo(Lines, MaxLines)

Healthy == <<HeaderLine, <<"0", ",", "1">>, <<"1", ",", ".", "5">> >>

\* the outputs the backend gives while an orchestration is checked
FewOutputs ==
    { Healthy, <<HeaderLine>>, <<HeaderLine, <<"0", ",", "1">>, <<"x", ",", "z">> >> }

AllExits == {Exit0(ls) : ls \in AllOutputs} \cup {ExitFail}
FewExits == {Exit0(ls) : ls \in FewOutputs} \cup {ExitFail}

\* keyword arguments given to solve and solve_to_file
KwargsChoices ==
    { NoKwargs, OneKwarg("y0", <<2, 0>>), OneKwarg("n_steps", <<1, 0>>) }

\* the sweep values 0.5001, 0.5002 and 1.0, and the text of each
SweepValues == { <<5001, 4>>, <<5002, 4>>, <<1, 0>> }

ValueTokens ==
    { <<"0", ".", "5", "0", "0", "1">>, <<"0", ".", "5", "0", "0", "2">>, <<"1">> }

\* param_name of parameter_sweep; the command admits only y0 and tf
SweepParams == {"y0", "dt"}
CliParams == {"y0", "tf"}

BaseChoices == { NoKwargs, OneKwarg("t0", <<1, 0>>) }

OutputChoices == {GoodOutput, MissingDirOutput}

(***************************************************************************)
(* State.                                                                  *)
(***************************************************************************)
VARIABLES
    exists,   \* the paths at which an executable exists
    solver,   \* the caller's FortranODESolver, NoSolver before the first
    pc,       \* "idle", or "waiting" inside subprocess.run
    call,     \* the call in progress
    live,     \* number of backend child processes alive
    spawns,   \* children spawned since the latest call began
    written,  \* files written since the latest call began
    result,   \* what the latest call returned or raised
    last,     \* the latest execution of solve that has ended
    ref       \* an earlier execution of solve, kept for comparison

vars == <<exists, solver, pc, call, live, spawns, written, result, last, ref>>

\* The state after the effect `eff` of code that ran with `n` children alive,
\* `k` spawned and the files `files` written so far in this call.
Apply(eff, n, k, files) ==
    /\ pc' = IF eff.next = "wait" THEN "waiting" ELSE "idle"
    /\ call' = eff.call
    /\ result' = eff.result
    /\ last' = eff.last
    /\ live' = IF eff.next = "wait" THEN n + 1 ELSE n
    /\ spawns' = IF eff.next = "wait" THEN k + 1 ELSE k
    /\ written' = WriteAll(files, eff.writes)

InitWith(fs) ==
    /\ exists = fs
    /\ solver = NoSolver
    /\ pc = "idle"
    /\ call = NoCall
    /\ live = 0
    /\ spawns = 0
    /\ written = {}
    /\ result = NoResult
    /\ last = NoAttempt
    /\ ref = NoAttempt

(***************************************************************************)
(* Operations.                                                             *)
(***************************************************************************)
\* FortranODESolver(executable_path); NoPath stands for None
Construct(explicit) ==
    /\ pc = "idle"
    /\ LET s == NewSolver(explicit, exists)
       IN  /\ solver' = IF s.exc = NoExc
                        THEN [path |-> s.path, existed |-> s.path \in exists]
                        ELSE solver
           /\ result' = [NoResult EXCEPT !.op = "init",
                                         !.status = IF s.exc = NoExc THEN "ok" ELSE "raised",
                                         !.exc = s.exc,
                                         !.arg = explicit,
                                         !.argExisted = explicit \in exists]
    /\ spawns' = 0
    /\ written' = {}
    /\ last' = NoAttempt
    /\ UNCHANGED <<exists, pc, call, live, ref>>

\* solver.solve(**kwargs)
CallSolve(kwargs) ==
    /\ pc = "idle"
    /\ solver # NoSolver
    /\ Apply(EnterSolve([NoCall EXCEPT !.op = "solve", !.handle = solver,
                                       !.kwargs = kwargs, !.i = 1],
                        exists, <<>>, NoAttempt),
             live, 0, {})
    /\ UNCHANGED <<exists, solver, ref>>

\* solver.solve_to_file(output_path, **kwargs)
CallSolveToFile(output_path, kwargs) ==
    /\ pc = "idle"
    /\ solver # NoSolver
    /\ Apply(EnterSolve([NoCall EXCEPT !.op = "solve_to_file", !.handle = solver,
                                       !.kwargs = kwargs, !.i = 1,
                                       !.out = output_path],
                        exists, <<>>, NoAttempt),
             live, 0, {})
    /\ UNCHANGED <<exists, solver, ref>>

\* parameter_sweep(param_name, param_values, solver, **base_kwargs)
CallParameterSweep(param_name, param_values, base_kwargs) ==
    /\ pc = "idle"
    /\ solver # NoSolver
    /\ Apply(SweepEnter([NoCall EXCEPT !.op = "parameter_sweep", !.handle = solver,
                                       !.param = param_name,
                                       !.values = param_values,
                                       !.base = base_kwargs],
                        exists),
             live, 0, {})
    /\ UNCHANGED <<exists, solver, ref>>

\* the command `sweep --param p --values v1,v2 --output-dir d`
CliSweep(param, tokens, dir) ==
    /\ pc = "idle"
    /\ Apply(CliSweepEnter(param, tokens, dir, exists), live, 0, {})
    /\ UNCHANGED <<exists, solver, ref>>

\* the child exits within the timeout: subprocess.run returns, or raises
\* CalledProcessError, and the code runs on to its next blocking point
BackendExits(raws) ==
    /\ pc = "waiting"
    /\ \E raw \in raws :
         LET req == BindRequest(call.kwargs)
             att == Attempt(call, raw, SolveOutcome(req, raw))
         IN  Apply(Continue(call, att, exists), LiveAfterExit(live), spawns, written)
    /\ UNCHANGED <<exists, solver, ref>>

\* the child is still running when the timeout expires
TimeoutExpires ==
    /\ pc = "waiting"
    /\ LET req == BindRequest(call.kwargs)
           att == Attempt(call, Hang, SolveOutcome(req, Hang))
       IN  Apply(Continue(call, att, exists), LiveAfterTimeout(live), spawns, written)
    /\ UNCHANGED <<exists, solver, ref>>

\* an executable is removed or installed by someone else
FsRemove(p) ==
    /\ p \in exists
    /\ exists' = exists \ {p}
    /\ UNCHANGED <<solver, pc, call, live, spawns, written, result, last, ref>>

FsCreate(p) ==
    /\ p \notin exists
    /\ exists' = exists \cup {p}
    /\ UNCHANGED <<solver, pc, call, live, spawns, written, result, last, ref>>

\* the observer keeps the solve call that has just ended, to compare a later
\* one with it
Remember ==
    /\ pc = "idle"
    /\ result.op = "solve"
    /\ ref # last
    /\ ref' = last
    /\ UNCHANGED <<exists, solver, pc, call, live, spawns, written, result, last>>

(***************************************************************************)
(* Specifications.                                                         *)
(***************************************************************************)
\* The whole program on a filesystem that does not change: the executable is
\* where the default search finds it second.
Init == InitWith({"./ode_solver"})

Next ==
    \/ \E p \in AllPaths \cup {NoPath} : Construct(p)
    \/ \E kw \in KwargsChoices : CallSolve(kw)
    \/ \E o \in OutputChoices, kw \in KwargsChoices : CallSolveToFile(o, kw)
    \/ \E pn \in SweepParams, vs \in SeqsUpTo(SweepValues, MaxValues),
          b \in BaseChoices : CallParameterSweep(pn, vs, b)
    \/ \E pn \in CliParams, ts \in SeqsUpTo(ValueTokens, MaxValues) \ {<<>>} :
          CliSweep(pn, ts, "out")
    \/ BackendExits(FewExits)
    \/ TimeoutExpires

Spec == Init /\ [][Next]_vars

\* solve and solve_to_file against every backend output within the bounds
InitSolve == InitWith({"build/ode_solver"})

NextSolve ==
    \/ Construct(NoPath)
    \/ \E kw \in KwargsChoices : CallSolve(kw)
    \/ \E o \in OutputChoices, kw \in KwargsChoices : CallSolveToFile(o, kw)
    \/ BackendExits(AllExits)
    \/ TimeoutExpires

SpecSolve == InitSolve /\ [][NextSolve]_vars

\* the constructor and solve on a filesystem that changes
InitHandle == \E fs \in SUBSET AllPaths : InitWith(fs)

NextHandle ==
    \/ \E p \in AllPaths \cup {NoPath} : Construct(p)
    \/ \E kw \in KwargsChoices : CallSolve(kw)
    \/ BackendExits(FewExits)
    \/ TimeoutExpires
    \/ \E p \in AllPaths : FsRemove(p)
    \/ \E p \in AllPaths : FsCreate(p)

SpecHandle == InitHandle /\ [][NextHandle]_vars

\* two solve calls side by side
NextPair ==
    \/ Construct(NoPath)
    \/ \E kw \in KwargsChoices : CallSolve(kw)
    \/ BackendExits(FewExits)
    \/ TimeoutExpires
    \/ Remember

SpecPair == InitSolve /\ [][NextPair]_vars


(***************************************************************************)
(* Properties.                                                             *)
(***************************************************************************)
Range(f) == {f[i] : i \in DOMAIN f}

\* the three kinds of failure of the error taxonomy
IsNotFound(e) ==
    /\ e.type = "FileNotFoundError"
    /\ e.msg \in {"Could not find ode_solver executable", "Executable not found"}
IsTimeout(e) == e.type = "RuntimeError" /\ e.msg = "Fortran solver timed out"
IsProcessFailure(e) == e.type = "RuntimeError" /\ e.msg = "Fortran solver failed"

\* a solve call has just ended on a backend that printed a header line and
\* then only well-formed or malformed lines
SolvedOnHeaderAndRows ==
    /\ pc = "idle"
    /\ result.op = "solve"
    /\ last.raw.kind = "exit" /\ last.raw.code = 0
    /\ last.raw.lines # <<>>
    /\ Head(last.raw.lines) = HeaderLine
    /\ \A i \in 2..Len(last.raw.lines) : last.raw.lines[i] \in GoodLines \cup BadLines

WellFormedCount(lines) == Cardinality({i \in 1..Len(lines) : lines[i] \in GoodLines})

\* C1: for backend output made of a header line, K well-formed lines and J
\* malformed lines in any position, solve does not fail and returns a series
\* of length exactly K.
C1_LenientTotal ==
    SolvedOnHeaderAndRows =>
        /\ result.status = "ok"
        /\ Len(result.t_vals) = WellFormedCount(last.raw.lines)

\* C2: every failure that reaches the caller of the constructor, solve,
\* solve_to_file or parameter_sweep is NotFound, Timeout or ProcessFailure
\* carrying the captured stderr.
C2_ThreeKinds ==
    (result.status = "raised"
     /\ result.op \in {"init", "solve", "solve_to_file", "parameter_sweep"}) =>
        \/ IsNotFound(result.exc)
        \/ IsTimeout(result.exc)
        \/ IsProcessFailure(result.exc) /\ result.exc.detail = last.raw.stderr

\* C3: a parameter_sweep that returns has one entry per value, in input
\* order, and entry i starts with values[i].
C3_SweepOrder ==
    (result.op = "parameter_sweep" /\ result.status = "ok") =>
        /\ Len(result.list) = Len(result.values)
        /\ \A i \in 1..Len(result.values) : result.list[i].value = result.values[i]

C3_Witness ==
    /\ result.op = "parameter_sweep" /\ result.status = "ok"
    /\ Len(result.values) >= 2
    /\ result.values[1] # result.values[2]
    /\ result.list[1].t_vals # result.list[2].t_vals

\* C4: when the solve of the i-th sweep value fails, parameter_sweep fails at
\* once with that failure: the sweep only ever waits for value i after i - 1
\* successes and i spawns, and a failed sweep has spawned nothing past the
\* failing value and hands no list to the caller.
C4_SweepAborts ==
    /\ (pc = "waiting" /\ call.op = "parameter_sweep") =>
          /\ spawns = call.i
          /\ Len(call.results) = call.i - 1
          /\ last.exc = NoExc
    /\ (result.op = "parameter_sweep" /\ result.status = "raised") =>
          /\ pc = "idle" /\ live = 0
          /\ last.i >= 1
          /\ result.exc = last.exc
          /\ spawns <= last.i
          /\ result.list = <<>>

C4_Witness ==
    /\ result.op = "parameter_sweep" /\ result.status = "raised"
    /\ last.raw # NoRaw
    /\ last.i = 1 /\ spawns = 1
    /\ Len(result.values) >= 2

\* C5: the constructor given an explicit path that does not exist fails with
\* NotFound without any process spawned; a handle holds a path that existed
\* when it was constructed; a process is spawned only through such a handle.
C5_HandlePathExisted ==
    /\ (result.op = "init" /\ result.arg # NoPath /\ ~result.argExisted) =>
          /\ result.status = "raised"
          /\ result.exc = NotFoundPath(result.arg)
          /\ pc = "idle" /\ live = 0 /\ spawns = 0
    /\ solver # NoSolver => solver.existed
    /\ pc = "waiting" =>
          /\ call.handle # NoSolver /\ call.handle.existed
          /\ call.argv[1] = call.handle.path

C5_Witness ==
    /\ result.op = "init" /\ result.arg # NoPath /\ ~result.argExisted
    /\ result.status = "raised"
    /\ solver # NoSolver /\ solver.path \notin exists

\* C6: at most one backend child is alive, none when no solve is in
\* progress, and none after a call has failed with Timeout.
C6_AtMostOneChild ==
    /\ live <= 1
    /\ pc = "idle" => live = 0
    /\ IsTimeout(result.exc) => live = 0

C6_Witness ==
    /\ result.status = "raised" /\ IsTimeout(result.exc)
    /\ last.raw = Hang
    /\ spawns >= 2
    /\ live = 0

\* C7: two solve calls on which the backend behaved the same way give the
\* same series or the same failure whatever was requested, and the backend
\* is spawned with no argument.
C7_RequestIgnored ==
    /\ pc = "waiting" => call.argv = <<call.handle.path>>
    /\ (pc = "idle" /\ result.op = "solve" /\ last.raw # NoRaw) =>
          /\ last.argv = <<solver.path>>
          /\ result.exc = last.exc
          /\ result.t_vals = last.t_vals /\ result.y_vals = last.y_vals
          /\ (ref.raw = last.raw) =>
                /\ ref.argv = last.argv
                /\ ref.exc = last.exc
                /\ ref.t_vals = last.t_vals /\ ref.y_vals = last.y_vals

C7_Witness ==
    /\ pc = "idle" /\ result.op = "solve" /\ result.status = "ok"
    /\ ref.raw = last.raw
    /\ BindRequest(ref.kwargs).n_steps # BindRequest(last.kwargs).n_steps
    /\ Len(result.t_vals) >= 2

\* C8: a solve call that returns gives a time sequence and a value sequence
\* of equal length.
C8_EqualLength ==
    (result.op \in {"solve"} /\ result.status = "ok") =>
        Len(result.t_vals) = Len(result.y_vals)

C8_Witness ==
    /\ result.op = "solve" /\ result.status = "ok"
    /\ Len(result.t_vals) = 1
    /\ \E i \in 1..Len(last.raw.lines) : last.raw.lines[i] \in BadLines

\* C9: a sweep of N values that completes has run the backend exactly N
\* times, for parameter_sweep and for the `sweep` command up to its files.
C9_OneInvocationPerValue ==
    (result.status = "ok" /\ result.op \in {"parameter_sweep", "cli_sweep"}) =>
        spawns = Len(result.values)

\* C10 as stated: after the `sweep` command any two different values are in
\* two different files, so N different values leave N files.
C10_DistinctValuesDistinctFiles ==
    (result.op = "cli_sweep" /\ result.status = "ok") =>
        /\ \A v \in Range(result.values) :
              \E f \in written : f.path = SweepFilePath("out", result.param, v)
        /\ \A v, w \in Range(result.values) :
              v # w => SweepFilePath("out", result.param, v)
                       # SweepFilePath("out", result.param, w)
        /\ Cardinality(written) = Cardinality(Range(result.values))

\* C10 amended: after the `sweep` command the files are exactly
\* out/<param>_<value with 3 decimals>.csv for the values given, one per
\* distinct 3-decimal rendering: values with the same rendering share a file.
C10_OneFilePerRendering ==
    (result.op = "cli_sweep" /\ result.status = "ok") =>
        /\ {f.path : f \in written} =
              { <<"out", "/", result.param, "_">> \o FormatFixed(v, 3) \o <<".csv">> :
                   v \in Range(result.values) }
        /\ Cardinality(written) =
              Cardinality({RoundedUnits(v, 3) : v \in Range(result.values)})

C10_Witness ==
    /\ result.op = "cli_sweep" /\ result.status = "ok"
    /\ \E v, w \in Range(result.values) : v # w /\ RoundedUnits(v, 3) = RoundedUnits(w, 3)
    /\ Cardinality(written) < Cardinality(Range(result.values))

=============================================================================
